---- MODULE Spec2Model ----
(***************************************************************************)
(* Model of the plan / execute / review / persist loop of the bug fixer:   *)
(* BugFixerWorkflow (bug_fix_workflow.py), the plan cache of               *)
(* CodebaseKnowledgeGraph (code_base_kg.py), the file tools                *)
(* (file_system_tools.py) and the driver BugFixingAgent                    *)
(* (bug_fixing_agent.py).                                                  *)
(***************************************************************************)
EXTENDS Integers, Sequences, FiniteSets, TLC

(***************************************************************************)
(* Bounds                                                                  *)
(***************************************************************************)
MaxPlanLen == 2

\* clean starts (--clean) considered among the runs sharing the Plan Store
MaxCleanStarts == 1

(***************************************************************************)
(* Values                                                                  *)
(***************************************************************************)
None == "None"

Absent == "<absent>"

Issues == {"issue-1", "issue-2"}

Paths == {"a.py", "b.py"}

\* the working copy as cloned: a.py exists, b.py does not
InitialFs == [p \in Paths |-> IF p = "a.py" THEN "orig" ELSE Absent]

\* File nodes the ingestion created in the code graph
FileNodes == {"a.py"}

EmptyParams == [x \in {} |-> x]

\* self.tool_map: the registered tool names
ToolMap == {"query_code_graph", "read_file", "write_file", "list_files"}

\* the steps the planner's generation call may emit
StepChoices ==
    { [tool_name |-> "read_file",        parameters |-> [file_path |-> "a.py"]],
      [tool_name |-> "read_file",        parameters |-> [file_path |-> "b.py"]],
      [tool_name |-> "read_file",        parameters |-> EmptyParams],
      [tool_name |-> "write_file",       parameters |-> [file_path |-> "a.py", content |-> "new"]],
      [tool_name |-> "write_file",       parameters |-> [file_path |-> "a.py", content |-> "newer"]],
      [tool_name |-> "write_file",       parameters |-> [file_path |-> "b.py", content |-> "new"]],
      [tool_name |-> "list_files",       parameters |-> EmptyParams],
      [tool_name |-> "query_code_graph", parameters |-> [query |-> "MATCH"]],
      [tool_name |-> "run_tests",        parameters |-> EmptyParams],
      [tool_name |-> "delete_file",      parameters |-> [file_path |-> "a.py"]] }

Plans == UNION { [1..n -> StepChoices] : n \in 0..MaxPlanLen }

\* what the reviewer's generation call may answer
ReviewOutputs ==
    {"COMPLETE", "REVISE: tests still fail", "REVISE", "", "I cannot review this"}

\* "<marker> REVISE" in text
HasReviseMarker(text) == text \in {"REVISE: tests still fail", "REVISE"}

VARIABLES
    caller,              \* who drives the workflow object: the agent or a client calling init()
    has_graph,           \* the workflow object has its graph / tool_map / prompts attributes
    pc,                  \* node of the compiled graph the run is at
    raised,              \* exception propagating out of the run, or None
    cleaned,             \* BugFixingAgent._cleanup has run
    faults_on,           \* the environment may make store and reviewer calls fail
    issue_summary,       \* AgentState
    plan,
    execution_results,
    review_feedback,
    current_task_status,
    fs,                  \* the working copy
    store,               \* Plan nodes of the knowledge graph, in creation order
    calls,               \* tool capabilities invoked by the current execute_step, in order
    mode,                \* context branch taken by the last plan_step
    entry_feedback,      \* review_feedback as plan_step read it
    entry_cached,        \* what find_successful_plan returned to the last plan_step
    planner_input,       \* message handed to the planner's generation call
    plans,               \* plans returned by plan_step, in order
    verdicts,            \* review decisions, in order
    handed,              \* plans handed to save_successful_plan
    commits,             \* commit-and-push attempts
    planner_calls,
    executor_calls,
    reviewer_calls,
    gen_failures,        \* planner generation calls that raised
    created,             \* what each Plan node of the store was created from
    savers,              \* runs that share the Plan Store: where each is in its save
    lookup,              \* the last cached-plan lookup made by one of those runs
    clean_starts,        \* runs started with the clean option
    kg_closed,           \* the agent's knowledge-graph connection is closed
    run_result,          \* how BugFixingAgent.run ended: "none" while it has not
    other_run            \* a second agent process started in the same directory

\* the state of the runs that share the Plan Store, the store itself excepted
storeVars == << savers, lookup, clean_starts >>

\* the agent's run and the second agent process
agentVars == << kg_closed, run_result, other_run >>

vars == << caller, has_graph, pc, raised, cleaned, faults_on, issue_summary, plan,
           execution_results, review_feedback, current_task_status, fs, store,
           calls, mode, entry_feedback, entry_cached, planner_input, plans,
           verdicts, handed, commits, planner_calls, executor_calls,
           reviewer_calls, gen_failures, created, savers, lookup, clean_starts,
           kg_closed, run_result, other_run >>

(***************************************************************************)
(* Tool capabilities (file_system_tools.py, graph_tools.py)                *)
(***************************************************************************)
\* keyword parameters each registered capability requires / accepts
RequiredParams(tool) ==
    CASE tool = "read_file"        -> {"file_path"}
      [] tool = "write_file"       -> {"file_path", "content"}
      [] tool = "list_files"       -> {}
      [] tool = "query_code_graph" -> {"query"}

AcceptedParams(tool) ==
    CASE tool = "read_file"        -> {"file_path"}
      [] tool = "write_file"       -> {"file_path", "content"}
      [] tool = "list_files"       -> {"directory"}
      [] tool = "query_code_graph" -> {"query"}

\* tool_function(**params) binds: no missing and no unexpected keyword
BindsParams(tool, params) ==
    /\ RequiredParams(tool) \subseteq DOMAIN params
    /\ DOMAIN params \subseteq AcceptedParams(tool)

\* "\n".join(os.listdir(directory))
ListingText(fsx) ==
    IF fsx["b.py"] = Absent THEN "a.py" ELSE "a.py b.py"

\* read_file: error text when the file is missing, the content otherwise;
\* a read that faults (decoding, permissions) raises
read_file(params, fsx, fault) ==
    IF fsx[params.file_path] = Absent
    THEN [raises |-> FALSE, text |-> "Error: File not found.", fs |-> fsx]
    ELSE IF fault
         THEN [raises |-> TRUE, text |-> "UnicodeDecodeError", fs |-> fsx]
         ELSE [raises |-> FALSE, text |-> fsx[params.file_path], fs |-> fsx]

\* write_file: overwrites the file; its own faults come back as error text
write_file(params, fsx, fault) ==
    IF fault
    THEN [raises |-> FALSE, text |-> "Error writing to file", fs |-> fsx]
    ELSE [raises |-> FALSE, text |-> "File written successfully.",
          fs |-> [fsx EXCEPT ![params.file_path] = params.content]]

\* list_files: the directory listing; its own faults come back as error text
list_files(params, fsx, fault) ==
    IF fault
    THEN [raises |-> FALSE, text |-> "Error listing files", fs |-> fsx]
    ELSE [raises |-> FALSE, text |-> ListingText(fsx), fs |-> fsx]

\* Neo4jGraphTools.query_code_graph: the rows as text, or error text
query_code_graph(params, fsx, fault) ==
    IF fault
    THEN [raises |-> FALSE, text |-> "Error executing query", fs |-> fsx]
    ELSE [raises |-> FALSE, text |-> "[rows]", fs |-> fsx]

\* tool_function(**params): TypeError when the keywords do not bind
InvokeTool(tool, params, fsx, fault) ==
    IF ~BindsParams(tool, params)
    THEN [raises |-> TRUE, text |-> "TypeError", fs |-> fsx]
    ELSE CASE tool = "read_file"        -> read_file(params, fsx, fault)
           [] tool = "write_file"       -> write_file(params, fsx, fault)
           [] tool = "list_files"       -> list_files(params, fsx, fault)
           [] tool = "query_code_graph" -> query_code_graph(params, fsx, fault)

(***************************************************************************)
(* Executor: BugFixerWorkflow.execute_step                                 *)
(***************************************************************************)
\* ExecuteOne with the outcome of an unregistered tool not appended
ExecuteOne_DropNotFound(step, i, fault, acc) ==
    IF step.tool_name \notin ToolMap
    THEN acc
    ELSE LET r == InvokeTool(step.tool_name, step.parameters, acc.fs, fault)
         IN  [fs      |-> r.fs,
              calls   |-> Append(acc.calls, [of |-> i, step |-> step, raised |-> r.raises]),
              results |-> Append(acc.results,
                                 IF r.raises
                                 THEN [of |-> i, kind |-> "tool_error",
                                       text |-> "Error executing tool"]
                                 ELSE [of |-> i, kind |-> "result", text |-> r.text])]

\* ExecuteOne with the except branch recording nothing
ExecuteOne_LoseFault(step, i, fault, acc) ==
    IF step.tool_name \notin ToolMap
    THEN [acc EXCEPT !.results = Append(@, [of |-> i, kind |-> "not_found",
                                             text |-> "Error: Tool not found."])]
    ELSE LET r == InvokeTool(step.tool_name, step.parameters, acc.fs, fault)
         IN  [fs      |-> r.fs,
              calls   |-> Append(acc.calls, [of |-> i, step |-> step, raised |-> r.raises]),
              results |-> IF r.raises
                          THEN acc.results
                          ELSE Append(acc.results,
                                      [of |-> i, kind |-> "result", text |-> r.text])]

\* ExecuteOne undoing the earlier steps' writes when a step fails
ExecuteOne_RollbackOnFailure(step, i, fault, acc) ==
    IF step.tool_name \notin ToolMap
    THEN [fs      |-> InitialFs,
          calls   |-> acc.calls,
          results |-> Append(acc.results, [of |-> i, kind |-> "not_found",
                                           text |-> "Error: Tool not found."])]
    ELSE LET r == InvokeTool(step.tool_name, step.parameters, acc.fs, fault)
         IN  [fs      |-> IF r.raises THEN InitialFs ELSE r.fs,
              calls   |-> Append(acc.calls, [of |-> i, step |-> step, raised |-> r.raises]),
              results |-> Append(acc.results,
                                 IF r.raises
                                 THEN [of |-> i, kind |-> "tool_error",
                                       text |-> "Error executing tool"]
                                 ELSE [of |-> i, kind |-> "result", text |-> r.text])]

\* one iteration of the loop over enumerate(plan): resolve, invoke, record
ExecuteOne(step, i, fault, acc) ==
    IF step.tool_name \notin ToolMap
    THEN [acc EXCEPT !.results = Append(@, [of |-> i, kind |-> "not_found",
                                             text |-> "Error: Tool not found."])]
    ELSE LET r == InvokeTool(step.tool_name, step.parameters, acc.fs, fault)
         IN  [fs      |-> r.fs,
              calls   |-> Append(acc.calls, [of |-> i, step |-> step, raised |-> r.raises]),
              results |-> Append(acc.results,
                                 IF r.raises
                                 THEN [of |-> i, kind |-> "tool_error",
                                       text |-> "Error executing tool"]
                                 ELSE [of |-> i, kind |-> "result", text |-> r.text])]

RECURSIVE ExecuteFrom_StopAtMissing(_, _, _, _)
\* ExecuteFrom leaving the loop after an unregistered tool
ExecuteFrom_StopAtMissing(p, i, faults, acc) ==
    IF i > Len(p)
    THEN acc
    ELSE IF p[i].tool_name \notin ToolMap
         THEN ExecuteOne(p[i], i, faults[i], acc)
         ELSE ExecuteFrom_StopAtMissing(p, i + 1, faults,
                                        ExecuteOne(p[i], i, faults[i], acc))

RECURSIVE ExecuteFrom(_, _, _, _)
\* the for loop of execute_step from step i on
ExecuteFrom(p, i, faults, acc) ==
    IF i > Len(p)
    THEN acc
    ELSE ExecuteFrom(p, i + 1, faults, ExecuteOne(p[i], i, faults[i], acc))

RECURSIVE ExecuteDown(_, _, _, _)
\* the loop taken from the last step to the first
ExecuteDown(p, i, faults, acc) ==
    IF i < 1
    THEN acc
    ELSE ExecuteDown(p, i - 1, faults, ExecuteOne(p[i], i, faults[i], acc))

\* RunPlan iterating over the plan backwards
RunPlan_Reversed(p, fsx, faults) ==
    LET r == ExecuteDown(p, Len(p), faults,
                         [fs |-> fsx, calls |-> << >>, results |-> << >>])
    IN  [r EXCEPT !.results = [i \in 1..Len(r.results) |->
                                  r.results[Len(r.results) + 1 - i]]]

\* execute_step as a function of the plan, the working copy and the faults
\* the environment injects into each step's capability
RunPlan(p, fsx, faults) ==
    ExecuteFrom(p, 1, faults, [fs |-> fsx, calls |-> << >>, results |-> << >>])

(***************************************************************************)
(* Plan Store: CodebaseKnowledgeGraph (code_base_kg.py)                    *)
(***************************************************************************)
\* json.dumps of a plan: per step the tool name and its key/value pairs
Dumps(p) ==
    [json |-> [i \in 1..Len(p) |->
                 [name |-> p[i].tool_name,
                  kv   |-> { <<k, p[i].parameters[k]>> : k \in DOMAIN p[i].parameters }]]]

\* Loads keeping only the tool names
Loads_NamesOnly(text) ==
    [i \in 1..Len(text.json) |->
        [tool_name |-> text.json[i].name, parameters |-> EmptyParams]]

\* json.loads of that text
Loads(text) ==
    [i \in 1..Len(text.json) |->
        [tool_name  |-> text.json[i].name,
         parameters |-> [k \in { x[1] : x \in text.json[i].kv } |->
                            (CHOOSE x \in text.json[i].kv : x[1] = k)[2]]]]

\* whether a call to the store or to the reviewer's provider returns (TRUE) or
\* raises (FALSE); it raises only when the environment faults
CallOutcomes(f) == IF f THEN {TRUE, FALSE} ELSE {TRUE}

\* save_successful_plan overwriting the newest record instead of adding one
save_successful_plan_ReplaceLast(st, issue, p, file_paths) ==
    LET rec == [issue |-> issue,
                steps |-> Dumps(p),
                files |-> { f \in file_paths : f \in FileNodes }]
    IN  IF st = << >> THEN << rec >> ELSE [st EXCEPT ![Len(st)] = rec]

\* save_successful_plan as a MERGE on the issue text: a record of the same
\* issue is updated in place
save_successful_plan_MergeByIssue(st, issue, p, file_paths) ==
    LET rec  == [issue |-> issue,
                 steps |-> Dumps(p),
                 files |-> { f \in file_paths : f \in FileNodes }]
        same == { i \in 1..Len(st) : st[i].issue = issue }
    IN  IF same = {}
        THEN Append(st, rec)
        ELSE [st EXCEPT ![CHOOSE i \in same : TRUE] = rec]

\* save_successful_plan: CREATE one Plan node, linked to the File nodes that
\* MATCH the given paths
save_successful_plan(st, issue, p, file_paths) ==
    Append(st, [issue |-> issue,
                steps |-> Dumps(p),
                files |-> { f \in file_paths : f \in FileNodes }])

\* the plan an earlier run saved
OldPlan ==
    << [tool_name |-> "write_file",
        parameters |-> [file_path |-> "a.py", content |-> "old"]] >>

\* a record already in the Plan Store from an earlier run
OldRecord == save_successful_plan(<< >>, "issue-0", OldPlan, {"a.py"})[1]

\* the runs that share the Plan Store
RunIds == {"run-A", "run-B"}

\* a run that has not reached its save
IdleSaver == [pc |-> "idle"]

\* no lookup made yet
NoLookup == [done |-> FALSE]

\* find_successful_plan's None
NoCachedPlan == [found |-> FALSE]

\* find_successful_plan matching the records on the issue text
find_successful_plan_SameIssue(st, issue) ==
    LET same == { i \in 1..Len(st) : st[i].issue = issue }
    IN  IF same = {}
        THEN {NoCachedPlan}
        ELSE { [found |-> TRUE, issue |-> st[i].issue, plan |-> Loads(st[i].steps)] :
                 i \in same }

\* find_successful_plan: None on an empty store, else any one record
\* (ORDER BY rand() LIMIT 1), its steps parsed; the issue is not used
find_successful_plan(st, issue) ==
    IF st = << >>
    THEN {NoCachedPlan}
    ELSE { [found |-> TRUE, issue |-> st[i].issue, plan |-> Loads(st[i].steps)] :
             i \in 1..Len(st) }

(***************************************************************************)
(* Prompt templates (BugFixerWorkflow._initialize_prompts)                 *)
(***************************************************************************)
\* replacement fields of reviser_prompt_template
ReviserFields == {"user_command", "old_issue", "cached_plan"}

\* replacement fields of failure_reviser_prompt_template; the last one is
\* written {review\_feedback} in the source
FailureReviserFields ==
    {"issue_summary", "failed_plan", "execution_results", "review\\_feedback"}

\* str.format(**kwargs): KeyError when a field has no keyword argument
Format(fields, kwargs) ==
    IF fields \subseteq DOMAIN kwargs
    THEN [ok |-> TRUE, message |-> [f \in fields |-> kwargs[f]]]
    ELSE [ok |-> FALSE, message |-> EmptyParams]

(***************************************************************************)
(* Loop controller: BugFixerWorkflow._build_graph, should_continue         *)
(***************************************************************************)
\* should_continue with the two routes swapped
should_continue_Swapped(status) == IF status = "COMPLETE" THEN "continue" ELSE "end"

\* should_continue: the route taken after the reviewer node
should_continue(status) == IF status = "COMPLETE" THEN "end" ELSE "continue"

\* GraphEdge with save_plan wired back to the planner instead of END
GraphEdge_SaveBackToPlanner(node, route) ==
    CASE node = "PLANNING"   -> "EXECUTING"
      [] node = "EXECUTING"  -> "REVIEWING"
      [] node = "REVIEWING"  -> IF route = "continue" THEN "PLANNING" ELSE "PERSISTING"
      [] node = "PERSISTING" -> "PLANNING"

\* the edges of the compiled graph; the nodes planner, executor, reviewer,
\* save_plan and END are the states PLANNING, EXECUTING, REVIEWING,
\* PERSISTING and DONE
GraphEdge(node, route) ==
    CASE node = "PLANNING"   -> "EXECUTING"
      [] node = "EXECUTING"  -> "REVIEWING"
      [] node = "REVIEWING"  -> IF route = "continue" THEN "PLANNING" ELSE "PERSISTING"
      [] node = "PERSISTING" -> "DONE"

(***************************************************************************)
(* Initial state                                                           *)
(***************************************************************************)
\* BugFixingAgent.__init__ done, BugFixerWorkflow() constructed, and the
\* initial_state dictionary of _execute_workflow
InitWith(f) ==
    /\ caller \in {"agent", "client"}
    /\ has_graph = FALSE
    /\ pc = "START"
    /\ raised = None
    /\ cleaned = FALSE
    /\ faults_on = f
    /\ issue_summary \in Issues
    /\ plan = << >>
    /\ execution_results = << >>
    /\ review_feedback = None
    /\ current_task_status = ""
    /\ fs = InitialFs
    /\ store \in { << >>, << OldRecord >> }
    /\ calls = << >>
    /\ mode = "none"
    /\ entry_feedback = None
    /\ entry_cached = NoCachedPlan
    /\ planner_input = EmptyParams
    /\ plans = << >>
    /\ verdicts = << >>
    /\ handed = << >>
    /\ commits = 0
    /\ planner_calls = 0
    /\ executor_calls = 0
    /\ reviewer_calls = 0
    /\ gen_failures = 0
    /\ created = IF store = << >>
                 THEN << >>
                 ELSE << [issue |-> "issue-0", plan |-> OldPlan, paths |-> {"a.py"}] >>
    /\ savers = [r \in RunIds |-> IdleSaver]
    /\ lookup = NoLookup
    /\ clean_starts = 0
    /\ kg_closed = FALSE
    /\ run_result = "none"
    /\ other_run = "none"

Init == InitWith(FALSE)

InitFaults == InitWith(TRUE)

(***************************************************************************)
(* Driver                                                                  *)
(***************************************************************************)
\* BugFixerWorkflow.init: builds the tool map, the prompts and the graph.
\* It is an ordinary method (not __init__): only a client that calls it
\* explicitly gets a workflow object with a graph.
WorkflowInit ==
    /\ caller = "client"
    /\ pc = "START"
    /\ ~has_graph
    /\ has_graph' = TRUE
    /\ UNCHANGED << caller, pc, raised, cleaned, faults_on, issue_summary, plan,
                    execution_results, review_feedback, current_task_status, fs,
                    store, calls, mode, entry_feedback, entry_cached,
                    planner_input, plans, verdicts, handed, commits,
                    planner_calls, executor_calls, reviewer_calls, gen_failures,
                    created, storeVars, agentVars >>

\* a client's graph.invoke(initial_state) after init()
GraphInvoke ==
    /\ caller = "client"
    /\ pc = "START"
    /\ has_graph
    /\ pc' = "PLANNING"
    /\ UNCHANGED << caller, has_graph, raised, cleaned, faults_on, issue_summary,
                    plan, execution_results, review_feedback, current_task_status,
                    fs, store, calls, mode, entry_feedback, entry_cached,
                    planner_input, plans, verdicts, handed, commits,
                    planner_calls, executor_calls, reviewer_calls, gen_failures,
                    created, storeVars, agentVars >>

\* BugFixingAgent._execute_workflow: workflow_runner = BugFixerWorkflow()
\* runs no initialiser, then workflow_runner.graph.invoke(initial_state)
ExecuteWorkflow ==
    /\ caller = "agent"
    /\ pc = "START"
    /\ raised = None
    /\ IF has_graph
       THEN /\ pc' = "PLANNING"
            /\ UNCHANGED raised
       ELSE /\ raised' = "AttributeError"
            /\ UNCHANGED pc
    /\ UNCHANGED << caller, has_graph, cleaned, faults_on, issue_summary, plan,
                    execution_results, review_feedback, current_task_status, fs,
                    store, calls, mode, entry_feedback, entry_cached,
                    planner_input, plans, verdicts, handed, commits,
                    planner_calls, executor_calls, reviewer_calls, gen_failures,
                    created, storeVars, agentVars >>

\* RunsCleanup with the cleanup after the try body instead of in a finally
RunsCleanup_OnReturnOnly(outcome) == outcome = "returned"

\* run's try/finally: _cleanup runs however _execute_workflow ended
RunsCleanup(outcome) == outcome \in {"returned", "raised"}

\* the end of BugFixingAgent.run: the finally body (_cleanup removes the
\* working copy and closes the agent's connection), then the return or the
\* re-raise
Cleanup ==
    /\ caller = "agent"
    /\ run_result = "none"
    /\ pc = "DONE" \/ raised # None
    /\ LET outcome == IF raised # None THEN "raised" ELSE "returned"
       IN  /\ run_result' = outcome
           /\ IF RunsCleanup(outcome)
              THEN /\ cleaned' = TRUE
                   /\ fs' = [p \in Paths |-> Absent]
                   /\ kg_closed' = TRUE
              ELSE UNCHANGED << cleaned, fs, kg_closed >>
    /\ UNCHANGED << caller, has_graph, pc, raised, faults_on, issue_summary, plan,
                    execution_results, review_feedback, current_task_status,
                    store, calls, mode, entry_feedback, entry_cached,
                    planner_input, plans, verdicts, handed, commits,
                    planner_calls, executor_calls, reviewer_calls, gen_failures,
                    created, storeVars, other_run >>

(***************************************************************************)
(* Planner node: BugFixerWorkflow.plan_step                                *)
(***************************************************************************)
\* ContextMode without the recovery branch
ContextMode_NoRecovery(feedback, cached) ==
    IF cached.found THEN "cache" ELSE "fresh"

\* ContextMode comparing the feedback with the marker instead of searching it
ContextMode_ExactMarker(feedback, cached) ==
    IF feedback = "REVISE"
    THEN "recovery"
    ELSE IF cached.found THEN "cache" ELSE "fresh"

\* the branch of plan_step that builds the message
\*   feedback: state.get("review_feedback"); cached: find_successful_plan's result
ContextMode(feedback, cached) ==
    IF feedback # None /\ feedback # "" /\ HasReviseMarker(feedback)
    THEN "recovery"
    ELSE IF cached.found THEN "cache" ELSE "fresh"

\* PlanGenerate without the except branch: a failed generation call leaves
\* plan_step as an exception
PlanGenerate_NoCatch(message) ==
    /\ planner_input' = message
    /\ \/ \E gen \in Plans :
             /\ plan' = gen
             /\ execution_results' = << >>
             /\ review_feedback' = None
             /\ plans' = Append(plans, plan')
             /\ pc' = "EXECUTING"
             /\ UNCHANGED << gen_failures, raised >>
       \/ /\ gen_failures' = gen_failures + 1
          /\ raised' = "GenerationFault"
          /\ UNCHANGED << plan, execution_results, review_feedback, plans, pc >>

\* the try block: the generation call, then the returned state update
PlanGenerate(message) ==
    /\ planner_input' = message
    /\ \/ \E gen \in Plans :
             /\ plan' = gen
             /\ execution_results' = << >>
             /\ review_feedback' = None
             /\ UNCHANGED gen_failures
       \/ \* the generation call raised: the except branch
          /\ plan' = << >>
          /\ review_feedback' = None
          /\ gen_failures' = gen_failures + 1
          /\ UNCHANGED execution_results
    /\ plans' = Append(plans, plan')
    /\ pc' = GraphEdge("PLANNING", "")
    /\ UNCHANGED raised

\* the exception leaves plan_step: the state is not updated
PlanRaise(exc) ==
    /\ raised' = exc
    /\ UNCHANGED << pc, plan, execution_results, review_feedback, planner_input,
                    plans, gen_failures >>

PlanStep ==
    /\ pc = "PLANNING"
    /\ raised = None
    /\ planner_calls' = planner_calls + 1
    /\ entry_feedback' = review_feedback
    /\ IF ContextMode(review_feedback, NoCachedPlan) = "recovery"
       THEN LET m == Format(FailureReviserFields,
                            [issue_summary     |-> issue_summary,
                             failed_plan       |-> Dumps(plan),
                             execution_results |-> [i \in 1..Len(execution_results) |->
                                                       execution_results[i].text],
                             review_feedback   |-> review_feedback])
            IN  /\ mode' = "recovery"
                /\ entry_cached' = NoCachedPlan
                /\ IF m.ok THEN PlanGenerate(m.message) ELSE PlanRaise("KeyError")
       ELSE \E ok \in CallOutcomes(faults_on) :
              IF ~ok
              THEN /\ mode' = "none"
                   /\ entry_cached' = NoCachedPlan
                   /\ PlanRaise("ServiceUnavailable")
              ELSE \E cached \in find_successful_plan(store, issue_summary) :
                     /\ mode' = ContextMode(review_feedback, cached)
                     /\ entry_cached' = cached
                     /\ IF cached.found
                        THEN PlanGenerate(Format(ReviserFields,
                                   [user_command |-> issue_summary,
                                    old_issue    |-> cached.issue,
                                    cached_plan  |-> cached.plan]).message)
                        ELSE PlanGenerate([message |-> issue_summary])
    /\ UNCHANGED << caller, has_graph, cleaned, faults_on, issue_summary,
                    current_task_status, fs, store, calls, verdicts, handed,
                    commits, executor_calls, reviewer_calls, created, storeVars, agentVars >>

(***************************************************************************)
(* Executor node                                                           *)
(***************************************************************************)
ExecuteStep ==
    /\ pc = "EXECUTING"
    /\ raised = None
    /\ \E faults \in [1..Len(plan) -> BOOLEAN] :
         LET r == RunPlan(plan, fs, faults)
         IN  /\ execution_results' = r.results
             /\ fs' = r.fs
             /\ calls' = r.calls
    /\ executor_calls' = executor_calls + 1
    /\ pc' = GraphEdge("EXECUTING", "")
    /\ UNCHANGED << caller, has_graph, raised, cleaned, faults_on, issue_summary,
                    plan, review_feedback, current_task_status, store, mode,
                    entry_feedback, entry_cached, planner_input, plans, verdicts,
                    handed, commits, planner_calls, reviewer_calls, gen_failures,
                    created, storeVars, agentVars >>

(***************************************************************************)
(* Reviewer node: review_step, then the conditional edge                   *)
(***************************************************************************)
\* ReviewDecision failing closed: REVISE unless the answer is the COMPLETE token
ReviewDecision_FailClosed(content) == IF content = "COMPLETE" THEN "COMPLETE" ELSE "REVISE"

\* ReviewDecision taking an empty answer as a rejection
ReviewDecision_EmptyIsRevise(content) ==
    IF HasReviseMarker(content) \/ content = "" THEN "REVISE" ELSE "COMPLETE"

\* review_decision from the reviewer's answer
ReviewDecision(content) == IF HasReviseMarker(content) THEN "REVISE" ELSE "COMPLETE"

ReviewStep ==
    /\ pc = "REVIEWING"
    /\ raised = None
    /\ reviewer_calls' = reviewer_calls + 1
    /\ \E ok \in CallOutcomes(faults_on) :
         IF ~ok
         THEN /\ raised' = "GenerationFault"
              /\ UNCHANGED << pc, current_task_status, review_feedback, verdicts >>
         ELSE \E content \in ReviewOutputs :
                /\ current_task_status' = ReviewDecision(content)
                /\ review_feedback' = content
                /\ verdicts' = Append(verdicts, ReviewDecision(content))
                /\ pc' = GraphEdge("REVIEWING", should_continue(current_task_status'))
                /\ UNCHANGED raised
    /\ UNCHANGED << caller, has_graph, cleaned, faults_on, issue_summary, plan,
                    execution_results, fs, store, calls, mode, entry_feedback,
                    entry_cached, planner_input, plans, handed, commits,
                    planner_calls, executor_calls, gen_failures, created, storeVars, agentVars >>

(***************************************************************************)
(* Persist node: save_plan_step                                            *)
(***************************************************************************)
\* the distinct file_path parameters of the plan's steps
FilePaths(p) ==
    { p[i].parameters.file_path :
        i \in { j \in 1..Len(p) : "file_path" \in DOMAIN p[j].parameters } }

\* ShouldSave without the test on file_paths
ShouldSave_PlanOnly(p) == p # << >>

\* `if plan and file_paths`
ShouldSave(p) == p # << >> /\ FilePaths(p) # {}

SavePlanStep ==
    /\ pc = "PERSISTING"
    /\ raised = None
    /\ IF ShouldSave(plan)
       THEN \E ok \in CallOutcomes(faults_on) :
              IF ok
              THEN /\ store' = save_successful_plan(store, issue_summary, plan,
                                                    FilePaths(plan))
                   /\ created' = Append(created, [issue |-> issue_summary, plan |-> plan,
                                                   paths |-> FilePaths(plan)])
                   /\ handed' = Append(handed, plan)
                   /\ commits' = commits + 1
                   /\ pc' = GraphEdge("PERSISTING", "")
                   /\ UNCHANGED raised
              ELSE /\ raised' = "ServiceUnavailable"
                   /\ UNCHANGED << store, created, handed, commits, pc >>
       ELSE /\ pc' = GraphEdge("PERSISTING", "")
            /\ UNCHANGED << store, created, handed, commits, raised >>
    /\ UNCHANGED << caller, has_graph, cleaned, faults_on, issue_summary, plan,
                    execution_results, review_feedback, current_task_status, fs,
                    calls, mode, entry_feedback, entry_cached, planner_input,
                    plans, verdicts, planner_calls, executor_calls,
                    reviewer_calls, gen_failures, storeVars, agentVars >>

(***************************************************************************)
(* Specifications                                                          *)
(***************************************************************************)
Next ==
    \/ WorkflowInit
    \/ GraphInvoke
    \/ ExecuteWorkflow
    \/ PlanStep
    \/ ExecuteStep
    \/ ReviewStep
    \/ SavePlanStep
    \/ Cleanup

\* the store and the reviewer's provider answer every call
Spec == Init /\ [][Next]_vars

\* store queries and the reviewer's call may fail
SpecFaults == InitFaults /\ [][Next]_vars

(***************************************************************************)
(* The Plan Store shared by several runs: the saves of two runs, lookups    *)
(* and clean starts of further runs, in any interleaving                   *)
(***************************************************************************)
\* the final plans the saving runs hand to save_plan_step
StorePlans ==
    { << [tool_name |-> "write_file",
          parameters |-> [file_path |-> "a.py", content |-> "new"]] >>,
      << [tool_name |-> "list_files", parameters |-> EmptyParams],
         [tool_name |-> "write_file",
          parameters |-> [file_path |-> "b.py", content |-> "new"]] >>,
      << [tool_name |-> "read_file", parameters |-> [file_path |-> "a.py"]],
         [tool_name |-> "write_file",
          parameters |-> [file_path |-> "a.py", content |-> "newer"]] >> }

\* the state of the run whose workflow these variables hold
wfVars ==
    << caller, has_graph, pc, raised, cleaned, faults_on, issue_summary, plan,
       execution_results, review_feedback, current_task_status, fs, calls, mode,
       entry_feedback, entry_cached, planner_input, plans, verdicts, handed,
       commits, planner_calls, executor_calls, reviewer_calls, gen_failures,
       kg_closed, run_result, other_run >>

\* save_plan_step of run r up to the call: issue, plan and file_paths are
\* taken from the run's final state
SaveBegin(r) ==
    /\ savers[r].pc = "idle"
    /\ \E issue \in Issues, p \in StorePlans :
         /\ ShouldSave(p)
         /\ savers' = [savers EXCEPT ![r] =
                          [pc |-> "called", issue |-> issue, plan |-> p,
                           paths |-> FilePaths(p)]]
    /\ UNCHANGED << wfVars, store, created, lookup, clean_starts >>

\* save_successful_plan of run r: the one query, run in its own transaction;
\* slot is the place of the Plan node it created
SaveQuery(r) ==
    /\ savers[r].pc = "called"
    /\ store' = save_successful_plan(store, savers[r].issue, savers[r].plan,
                                     savers[r].paths)
    /\ created' = Append(created, [issue |-> savers[r].issue,
                                   plan  |-> savers[r].plan,
                                   paths |-> savers[r].paths])
    /\ savers' = [savers EXCEPT ![r] =
                     [pc |-> "saved", issue |-> savers[r].issue,
                      plan |-> savers[r].plan, paths |-> savers[r].paths,
                      slot |-> Len(store')]]
    /\ UNCHANGED << wfVars, lookup, clean_starts >>

\* find_successful_plan called by some run for its issue
FindPlan ==
    /\ \E q \in Issues :
         \E res \in find_successful_plan(store, q) :
            lookup' = [done |-> TRUE, query |-> q, result |-> res, seen |-> created]
    /\ UNCHANGED << wfVars, store, created, savers, clean_starts >>

\* a run started with --clean: _prepare_knowledge_graph calls clear_database,
\* MATCH (n) DETACH DELETE n
CleanStart ==
    /\ clean_starts < MaxCleanStarts
    /\ clean_starts' = clean_starts + 1
    /\ store' = << >>
    /\ created' = << >>
    /\ UNCHANGED << wfVars, savers, lookup >>

InitStore ==
    /\ InitWith(FALSE)
    /\ caller = "client"
    /\ issue_summary = "issue-1"

NextStore ==
    \/ \E r \in RunIds : SaveBegin(r)
    \/ \E r \in RunIds : SaveQuery(r)
    \/ FindPlan
    \/ CleanStart

SpecStore == InitStore /\ [][NextStore]_vars

(***************************************************************************)
(* A second agent process started in the same directory: its local_path is *)
(* the same "./temp_repo", and it is given the same database               *)
(***************************************************************************)
\* os.path.exists(self.local_path)
WorkingCopyExists(fsx) == \E p \in Paths : fsx[p] # Absent

\* BugFixingAgent.__init__ of the second process: with clean_db the working
\* copy is removed and the database cleared; a missing working copy is cloned
OtherInit ==
    /\ other_run = "none"
    /\ other_run' = "inited"
    /\ \E clean_db \in BOOLEAN :
         /\ IF clean_db
            THEN /\ store' = << >>
                 /\ created' = << >>
            ELSE UNCHANGED << store, created >>
         /\ IF clean_db \/ ~WorkingCopyExists(fs)
            THEN fs' = InitialFs
            ELSE UNCHANGED fs
    /\ UNCHANGED << caller, has_graph, pc, raised, cleaned, faults_on,
                    issue_summary, plan, execution_results, review_feedback,
                    current_task_status, calls, mode, entry_feedback,
                    entry_cached, planner_input, plans, verdicts, handed,
                    commits, planner_calls, executor_calls, reviewer_calls,
                    gen_failures, storeVars, kg_closed, run_result >>

\* BugFixingAgent.run of the second process: its workflow object has no
\* graph, and the finally body removes "./temp_repo"
OtherRunEnd ==
    /\ other_run = "inited"
    /\ other_run' = "over"
    /\ fs' = [p \in Paths |-> Absent]
    /\ UNCHANGED << caller, has_graph, pc, raised, cleaned, faults_on,
                    issue_summary, plan, execution_results, review_feedback,
                    current_task_status, store, calls, mode, entry_feedback,
                    entry_cached, planner_input, plans, verdicts, handed,
                    commits, planner_calls, executor_calls, reviewer_calls,
                    gen_failures, created, storeVars, kg_closed, run_result >>

NextShared ==
    \/ WorkflowInit
    \/ GraphInvoke
    \/ ExecuteWorkflow
    \/ PlanStep
    \/ ExecuteStep
    \/ ReviewStep
    \/ SavePlanStep
    \/ Cleanup
    \/ OtherInit
    \/ OtherRunEnd

\* two runs in one directory
SpecShared == Init /\ [][NextShared]_vars

(***************************************************************************)
(* Properties                                                              *)
(***************************************************************************)
\* execute_step has run on the current plan
Executed == pc \in {"REVIEWING", "PERSISTING", "DONE"}

\* the run is over: END was reached or an exception left graph.invoke
RunEnded == pc = "DONE" \/ raised # None

\* C1: once execute_step has run on the plan, the trace holds exactly one
\* outcome per step, outcome i coming from step i, in REVIEWING, PERSISTING
\* and DONE alike; failed steps contribute their outcome too.
C1_TraceMatchesPlan ==
    Executed =>
        /\ Len(execution_results) = Len(plan)
        /\ \A i \in 1..Len(plan) : execution_results[i].of = i

\* a two-step plan whose first step failed has reached DONE with two outcomes
C1_Witness ==
    /\ pc = "DONE"
    /\ Len(plan) = 2
    /\ Len(execution_results) = 2
    /\ execution_results[1].kind # "result"

\* Plan Store records created by this run (earlier runs had other issues)
CreatedRecords == { i \in 1..Len(store) : store[i].issue = issue_summary }

\* the plan is non-empty and at least one step carries a file_path parameter
HasFilePathStep(p) ==
    /\ Len(p) > 0
    /\ \E i \in 1..Len(p) : "file_path" \in DOMAIN p[i].parameters

\* C2: a record is created in the Plan Store if and only if the run reached
\* the Complete verdict with a non-empty plan having at least one step with
\* a file_path parameter: no record before DONE or without such a plan, and
\* at DONE a record exists exactly for such plans (its issue and steps being
\* the run's).
C2_PersistIffCompleteWithFilePath ==
    /\ CreatedRecords # {} =>
          /\ pc = "DONE"
          /\ current_task_status = "COMPLETE"
          /\ HasFilePathStep(plan)
          /\ Cardinality(CreatedRecords) = 1
          /\ \A i \in CreatedRecords : Loads(store[i].steps) = plan
    /\ pc = "DONE" => (CreatedRecords # {} <=> HasFilePathStep(plan))

\* a completed plan whose only file_path step names an unregistered tool
\* has been recorded
C2_Witness ==
    /\ pc = "DONE"
    /\ CreatedRecords # {}
    /\ Len(plan) = 2
    /\ plan[1].tool_name = "list_files"
    /\ plan[2].tool_name = "delete_file"

\* C3 (as claimed): a run whose first verdict is Revise asks the reviewer a
\* second time, and when that second verdict is Complete it has gone through
\* exactly two planning rounds and two plans, is DONE, and handed only the
\* second plan to the Plan Store.
C3_LoopRecovery ==
    (RunEnded /\ Len(verdicts) >= 1 /\ verdicts[1] = "REVISE") =>
        /\ Len(verdicts) >= 2
        /\ verdicts = << "REVISE", "COMPLETE" >> =>
              /\ pc = "DONE"
              /\ planner_calls = 2
              /\ Len(plans) = 2
              /\ \A i \in 1..Len(handed) : handed[i] = plans[2]

\* C4 (as claimed): a run in which the reviewer only ever answers Complete
\* and the planner's generation call never fails ends in DONE with planner,
\* executor and reviewer each entered exactly once.
C4_OneCycleToDone ==
    (RunEnded /\ gen_failures = 0 /\ \A i \in 1..Len(verdicts) : verdicts[i] = "COMPLETE") =>
        /\ pc = "DONE"
        /\ planner_calls = 1
        /\ executor_calls = 1
        /\ reviewer_calls = 1

\* the transitions of the loop controller
ControllerTransitions ==
    { << "PLANNING", "EXECUTING" >>, << "EXECUTING", "REVIEWING" >>,
      << "REVIEWING", "PLANNING" >>, << "REVIEWING", "PERSISTING" >>,
      << "PERSISTING", "DONE" >> }

\* C5: the controller moves only PLANNING->EXECUTING, EXECUTING->REVIEWING,
\* REVIEWING->PLANNING (the verdict just given being Revise),
\* REVIEWING->PERSISTING (the verdict being Complete) and PERSISTING->DONE;
\* at DONE the last verdict is Complete, so a run whose reviewer only
\* answers Revise is never DONE.
C5_OnlyControllerTransitions ==
    /\ [][ (pc # "START" /\ pc' # pc) =>
              /\ << pc, pc' >> \in ControllerTransitions
              /\ pc = "REVIEWING" =>
                    /\ Len(verdicts') = Len(verdicts) + 1
                    /\ pc' = "PLANNING"   => verdicts'[Len(verdicts')] = "REVISE"
                    /\ pc' = "PERSISTING" => verdicts'[Len(verdicts')] = "COMPLETE" ]_vars
    /\ [](pc = "DONE" =>
              /\ verdicts # << >>
              /\ verdicts[Len(verdicts)] = "COMPLETE"
              /\ current_task_status = "COMPLETE")

\* the loop is back in PLANNING after a Revise verdict
C5_Witness ==
    /\ pc = "PLANNING"
    /\ verdicts = << "REVISE" >>

\* C6 (as claimed): once plan_step has run after a Revise verdict, the
\* round was recovery-seeded, hands the planner the failed plan, that plan's full
\* trace and the reviewer's reason, and yields a new plan, the loop moving
\* on to EXECUTING.
C6_RecoveryRoundReplans ==
    (planner_calls >= 2 /\ executor_calls = planner_calls - 1
        /\ verdicts[planner_calls - 1] = "REVISE") =>
        /\ raised = None
        /\ pc = "EXECUTING"
        /\ mode = "recovery"
        /\ Len(plans) = planner_calls
        /\ plan = plans[Len(plans)]
        /\ planner_input.failed_plan = Dumps(plans[Len(plans) - 1])
        /\ Len(planner_input.execution_results) = Len(plans[Len(plans) - 1])
        /\ HasReviseMarker(planner_input.review_feedback)

\* C7: every planning round takes exactly one context mode, fixed by the
\* state it is entered with: recovery exactly when the preceding verdict is
\* Revise (the feedback read carries it), otherwise cache exactly when the
\* Plan Store returned a record (it does when it held one at entry),
\* otherwise fresh.
C7_ContextModeSelection ==
    planner_calls > 0 =>
        /\ mode \in {"recovery", "cache", "fresh"}
        /\ mode = "recovery" <=> HasReviseMarker(entry_feedback)
        /\ mode = "recovery" <=>
              (planner_calls >= 2 /\ verdicts[planner_calls - 1] = "REVISE")
        /\ mode = "cache" <=> (~HasReviseMarker(entry_feedback) /\ entry_cached.found)
        /\ mode = "fresh" <=> (~HasReviseMarker(entry_feedback) /\ ~entry_cached.found)
        /\ mode # "recovery" =>
              (entry_cached.found <=> Len(store) > Cardinality(CreatedRecords))

\* a second planning round entered with Revise feedback, the store holding
\* a record
C7_Witness ==
    /\ planner_calls = 2
    /\ mode = "recovery"
    /\ store # << >>

\* the outcome text carries the "not found" marker
ContainsNotFound(text) == text \in {"Error: Tool not found.", "Error: File not found."}

\* step j of the plan got its own outcome, and its capability was invoked
\* if its tool is registered
StepWasRun(j) ==
    /\ j <= Len(execution_results)
    /\ execution_results[j].of = j
    /\ plan[j].tool_name \in ToolMap => \E l \in 1..Len(calls) : calls[l].of = j

\* C8: a step naming a tool that is not in the tool map gets a "not found"
\* outcome and every step after it is still executed and gets its outcome.
C8_MissingToolDoesNotStopPlan ==
    Executed =>
        \A i \in 1..Len(plan) :
            plan[i].tool_name \notin ToolMap =>
                /\ StepWasRun(i)
                /\ execution_results[i].kind = "not_found"
                /\ ContainsNotFound(execution_results[i].text)
                /\ \A l \in 1..Len(calls) : calls[l].of # i
                /\ \A j \in (i + 1)..Len(plan) : StepWasRun(j)

\* the plan [run_tests, list_files]: the second step ran after the
\* unregistered first one
C8_Witness ==
    /\ pc = "REVIEWING"
    /\ Len(plan) = 2
    /\ plan[1].tool_name = "run_tests"
    /\ plan[2].tool_name = "list_files"
    /\ Len(calls) = 1
    /\ execution_results[2].kind = "result"

\* C9: when a resolved capability raises during step i, the executor
\* records it as step i's textual outcome, the round goes on to review with
\* no exception raised, and every later step still runs.
C9_ToolFaultIsRecorded ==
    Executed =>
        \A k \in 1..Len(calls) :
            calls[k].raised =>
                /\ StepWasRun(calls[k].of)
                /\ execution_results[calls[k].of].kind = "tool_error"
                /\ execution_results[calls[k].of].text = "Error executing tool"
                /\ \A j \in (calls[k].of + 1)..Len(plan) : StepWasRun(j)
                /\ raised = None

\* read_file called without its file_path raised, and the write after it
\* was still performed
C9_Witness ==
    /\ pc = "REVIEWING"
    /\ Len(calls) = 2
    /\ calls[1].raised
    /\ calls[2].step.tool_name = "write_file"
    /\ fs["b.py"] = "new"

\* write steps of the plan to path f that reported success
WritesTo(f) ==
    { i \in 1..Len(plan) :
        /\ plan[i].tool_name = "write_file"
        /\ BindsParams("write_file", plan[i].parameters)
        /\ plan[i].parameters.file_path = f
        /\ execution_results[i].text = "File written successfully." }

\* the largest element of a non-empty set of step indices
LastOf(S) == CHOOSE i \in S : \A j \in S : j <= i

\* C10: within an execution round the capabilities are invoked in plan
\* order, once for each step whose tool resolves and never for another
\* step, so the working copy holds for each file the content of the last
\* successful write in plan order.
C10_InvokedOnceInPlanOrder ==
    Executed =>
        /\ \A k \in 1..Len(calls) :
              /\ calls[k].of \in 1..Len(plan)
              /\ calls[k].step = plan[calls[k].of]
        /\ \A k, l \in 1..Len(calls) : k < l => calls[k].of < calls[l].of
        /\ \A i \in 1..Len(plan) :
              Cardinality({ k \in 1..Len(calls) : calls[k].of = i })
                 = IF plan[i].tool_name \in ToolMap THEN 1 ELSE 0
        /\ (executor_calls = 1 /\ ~cleaned) =>
              \A f \in Paths :
                  fs[f] = IF WritesTo(f) = {} THEN InitialFs[f]
                          ELSE plan[LastOf(WritesTo(f))].parameters.content

\* two writes to the same file, the later one's content is what remains
C10_Witness ==
    /\ pc = "REVIEWING"
    /\ Len(calls) = 2
    /\ calls[1].step.parameters = [file_path |-> "a.py", content |-> "newer"]
    /\ calls[2].step.parameters = [file_path |-> "a.py", content |-> "new"]
    /\ fs["a.py"] = "new"

\* C11: when the planner's generation call fails, plan_step catches it and
\* returns an empty plan with the feedback cleared: no exception leaves the
\* node, the loop goes to EXECUTING, and executing the empty plan gives an
\* empty trace and leads on to REVIEWING.
C11_GenerationFailureIsAbsorbed ==
    /\ [][ gen_failures' > gen_failures =>
              /\ pc = "PLANNING"
              /\ pc' = "EXECUTING"
              /\ raised' = None
              /\ plan' = << >>
              /\ review_feedback' = None ]_vars
    /\ [][ (pc = "EXECUTING" /\ plan = << >> /\ executor_calls' > executor_calls) =>
              /\ pc' = "REVIEWING"
              /\ raised' = None
              /\ execution_results' = << >> ]_vars

\* a run whose generation call failed has executed the empty plan and is
\* under review
C11_Witness ==
    /\ gen_failures = 1
    /\ pc = "REVIEWING"
    /\ plan = << >>
    /\ execution_results = << >>
    /\ raised = None

\* C12: every call of plan_step ends with the trace empty and the feedback
\* cleared and hands over to EXECUTING, whether the generation call succeeded
\* or failed; nothing of an earlier round's outcome is left in the state.
C12_PlanningExitClearsAndExecutes ==
    [][ planner_calls' > planner_calls =>
           /\ pc' = "EXECUTING"
           /\ raised' = None
           /\ execution_results' = << >>
           /\ review_feedback' = None ]_vars

\* C13: a Plan Store that cannot be reached when plan_step looks up a cached
\* plan is taken as "no cached plan": the round that is not a recovery round
\* plans in fresh (or cache) mode and hands over to EXECUTING without an
\* exception.
C13_LookupFailureDegradesToFresh ==
    [][ (planner_calls' > planner_calls
         /\ ContextMode(review_feedback, NoCachedPlan) # "recovery") =>
           /\ raised' = None
           /\ mode' \in {"fresh", "cache"}
           /\ pc' = "EXECUTING" ]_vars

\* C14: a failing save in PERSISTING does not end the run with an exception:
\* save_plan_step, entered after a COMPLETE verdict, always hands over to
\* DONE with plan, trace and verdict as they were.
C14_SaveFailureIsNotFatal ==
    [][ (pc = "PERSISTING" /\ raised = None /\ (pc' # pc \/ raised' # raised)) =>
           /\ pc' = "DONE"
           /\ raised' = None
           /\ current_task_status' = "COMPLETE"
           /\ plan' = plan
           /\ execution_results' = execution_results ]_vars

\* C15: every completed review_step stores exactly one of the two verdicts
\* COMPLETE and REVISE, and with REVISE the stored feedback is a non-empty
\* text (the reviewer's answer, which holds the REVISE marker).
C15_VerdictAndReason ==
    [][ (reviewer_calls' > reviewer_calls /\ raised' = None) =>
           /\ current_task_status' \in {"COMPLETE", "REVISE"}
           /\ verdicts' = Append(verdicts, current_task_status')
           /\ (current_task_status' = "REVISE" =>
                 /\ review_feedback' # None
                 /\ review_feedback' # ""
                 /\ HasReviseMarker(review_feedback')) ]_vars

\* a review that ended with REVISE and its reason in the state
C15_Witness ==
    /\ reviewer_calls = 1
    /\ verdicts = << "REVISE" >>
    /\ current_task_status = "REVISE"
    /\ review_feedback = "REVISE: tests still fail"

\* C19: the files linked to a saved plan record are exactly the distinct
\* file_path parameter values of the saved plan's steps (created[i] is what
\* save number i was given, store[i] is the record it made).
C19_TouchedFilesAreThePlanPaths ==
    \A i \in 1..Len(store) :
        i <= Len(created) =>
            /\ created[i].paths = FilePaths(created[i].plan)
            /\ store[i].files = created[i].paths

\* C16: a lookup on a store holding exactly one plan record returns the issue
\* that was saved and the plan that was saved, step for step with tool names
\* and parameters, as they were before serialization.
C16_SaveFindRoundTrip ==
    (lookup.done /\ Len(lookup.seen) = 1) =>
        /\ lookup.result.found
        /\ lookup.result.issue = lookup.seen[1].issue
        /\ lookup.result.plan = lookup.seen[1].plan

\* a run saved a two-step plan into the empty store and a lookup returned it
C16_Witness ==
    /\ lookup.done
    /\ Len(lookup.seen) = 1
    /\ lookup.result.found
    /\ Len(lookup.result.plan) = 2
    /\ \E r \in RunIds :
         /\ savers[r].pc = "saved"
         /\ savers[r].plan = lookup.result.plan
         /\ savers[r].issue = lookup.result.issue

C18_ConcurrentSavesKeepBothRecords ==
    clean_starts = 0 =>
        /\ \A r \in RunIds :
             savers[r].pc = "saved" =>
                /\ savers[r].slot \in 1..Len(store)
                /\ store[savers[r].slot].issue = savers[r].issue
                /\ store[savers[r].slot].steps = Dumps(savers[r].plan)
        /\ \A r1, r2 \in RunIds :
             (r1 # r2 /\ savers[r1].pc = "saved" /\ savers[r2].pc = "saved") =>
                savers[r1].slot # savers[r2].slot

\* both runs saved for the same issue, with different plans, run-B's query
\* first
C18_Witness ==
    /\ clean_starts = 0
    /\ savers["run-A"].pc = "saved"
    /\ savers["run-B"].pc = "saved"
    /\ savers["run-A"].issue = savers["run-B"].issue
    /\ savers["run-A"].plan # savers["run-B"].plan
    /\ savers["run-A"].slot > savers["run-B"].slot

\* what a lookup may return on a store made by the saves in made
AnyStoredRecord(made) ==
    IF made = << >>
    THEN {NoCachedPlan}
    ELSE { [found |-> TRUE, issue |-> made[i].issue, plan |-> made[i].plan] :
             i \in 1..Len(made) }

\* C20: for every query issue the possible results of the lookup are the same:
\* None exactly when the store holds no record, else the issue and plan of any
\* one stored record, whatever the query.
C20_LookupIgnoresQuery ==
    /\ \A q \in Issues : find_successful_plan(store, q) = AnyStoredRecord(created)
    /\ lookup.done =>
          /\ lookup.result \in AnyStoredRecord(lookup.seen)
          /\ lookup.result.found <=> lookup.seen # << >>

\* a lookup on a store of several records returned a record saved for another
\* issue than the one asked for
C20_Witness ==
    /\ lookup.done
    /\ Len(lookup.seen) >= 2
    /\ lookup.result.found
    /\ lookup.result.issue # lookup.query
    /\ \E i \in 1..Len(lookup.seen) : lookup.seen[i].issue = lookup.query

\* write steps of plan p to path f that reported success in the trace res
WritesIn(p, res, f) ==
    { i \in 1..Len(p) :
        /\ p[i].tool_name = "write_file"
        /\ BindsParams("write_file", p[i].parameters)
        /\ p[i].parameters.file_path = f
        /\ res[i].text = "File written successfully." }

\* a step of plan p after step i did not come back with a result
FailsAfter(p, res, i) ==
    \E j \in (i + 1)..Len(p) : res[j].kind # "result"

\* C21: there is no rollback. An execution round leaves in the working copy,
\* for each file, the last write that succeeded (also when a later step of
\* the plan failed) and leaves the other files as they were; planning,
\* review (a rejection included) and persisting do not touch the working
\* copy, so a later round starts from the earlier rounds' writes.
C21_NoRollback ==
    /\ [][ executor_calls' > executor_calls =>
              \A f \in Paths :
                 fs'[f] = IF WritesIn(plan, execution_results', f) = {}
                          THEN fs[f]
                          ELSE plan[LastOf(WritesIn(plan, execution_results', f))]
                                  .parameters.content ]_vars
    /\ [][ (executor_calls' = executor_calls /\ cleaned' = cleaned) => fs' = fs ]_vars

\* a.py was written, the plan's next step failed, the reviewer rejected the
\* round, and the second planning round was entered with the write in place
C21_Witness ==
    /\ planner_calls = 2
    /\ verdicts = << "REVISE" >>
    /\ Len(plan) = 2
    /\ WritesIn(plan, execution_results, "a.py") = {1}
    /\ FailsAfter(plan, execution_results, 1)
    /\ fs["a.py"] = plan[1].parameters.content
    /\ fs["a.py"] # InitialFs["a.py"]

\* C22: the reviewer fails open. An answer without the REVISE marker, the
\* empty answer and an answer in no expected form included, is taken as
\* COMPLETE and the run goes to PERSISTING; the verdict is REVISE, and the
\* run goes back to PLANNING, only when the marker occurs in the answer.
C22_ReviewerFailsOpen ==
    [][ (reviewer_calls' > reviewer_calls /\ raised' = None) =>
           /\ review_feedback' \in ReviewOutputs
           /\ ~HasReviseMarker(review_feedback') =>
                 /\ current_task_status' = "COMPLETE"
                 /\ pc' = "PERSISTING"
           /\ current_task_status' = "REVISE" =>
                 /\ HasReviseMarker(review_feedback')
                 /\ pc' = "PLANNING" ]_vars

\* the reviewer answered with nothing and the run went on to save its plan
C22_Witness ==
    /\ reviewer_calls = 1
    /\ review_feedback = ""
    /\ current_task_status = "COMPLETE"
    /\ pc = "DONE"
    /\ Len(handed) = 1

\* C23: a run asks the Plan Store for a cached plan in its first planning
\* round and in no other: every later plan_step finds REVISE feedback in the
\* state and takes the recovery branch, which makes no lookup, also when the
\* round before it failed to generate and left an empty plan.
C23_CacheConsultedInFirstRoundOnly ==
    [][ planner_calls' > planner_calls =>
           /\ (mode' \in {"fresh", "cache"}) <=> (planner_calls = 0)
           /\ planner_calls >= 1 =>
                 /\ mode' = "recovery"
                 /\ HasReviseMarker(entry_feedback')
                 /\ entry_cached' = NoCachedPlan
                 /\ verdicts[Len(verdicts)] = "REVISE" ]_vars

\* the first round found a cached plan and failed to generate; the second
\* round was a recovery round and made no lookup although the store has a
\* record
C23_Witness ==
    /\ planner_calls = 2
    /\ gen_failures = 1
    /\ plans = << << >> >>
    /\ store # << >>
    /\ mode = "recovery"
    /\ entry_cached = NoCachedPlan

\* C24: a run creates at most one Plan Store record, as its last store
\* operation: the record is made by save_plan_step after a COMPLETE verdict,
\* carries the run's issue and the plan that is the final plan at DONE, and
\* nothing follows it but END. A commit-and-push is attempted with that save
\* and at no other time: not after a REVISE verdict and not when the save is
\* skipped.
C24_OneRecordSavedLast ==
    /\ [][ store' # store =>
              /\ pc = "PERSISTING"
              /\ pc' = "DONE"
              /\ current_task_status = "COMPLETE"
              /\ Len(store') = Len(store) + 1
              /\ \A i \in 1..Len(store) : store'[i] = store[i]
              /\ store'[Len(store')].issue = issue_summary
              /\ Loads(store'[Len(store')].steps) = plan'
              /\ handed = << >>
              /\ commits' = commits + 1 ]_vars
    /\ [][ commits' # commits => (store' # store /\ commits = 0) ]_vars
    /\ [][ pc = "DONE" =>
              /\ store' = store
              /\ plan' = plan
              /\ mode' = mode
              /\ commits' = commits ]_vars

\* a run that ended in DONE with its one record in the store, beside the
\* record of an earlier run
C24_Witness ==
    /\ pc = "DONE"
    /\ commits = 1
    /\ Len(store) = 2
    /\ store[2].issue = issue_summary
    /\ Loads(store[2].steps) = plan
    /\ Len(plan) = 2
    /\ mode = "cache"

C26_WorkingCopiesAreIndependent ==
    [][ (other_run' # other_run
         /\ pc \in {"PLANNING", "EXECUTING", "REVIEWING", "PERSISTING"}
         /\ raised = None) => fs' = fs ]_vars

====
